---------------------------- MODULE Spec2Model ----------------------------
(***************************************************************************)
(* A model of the URL shortener (app/main.py, app/models.py, app/utils.py). *)
(*                                                                         *)
(* Strings are sequences of one-character strings, so that normalize_url   *)
(* and is_valid_url are computed character by character as the code (and   *)
(* the urllib.parse / re functions it calls) computes them.  Only ASCII    *)
(* characters without brackets, tabs and newlines occur in the inputs.     *)
(*                                                                         *)
(* Each request runs in its own database session.  A handler's step ends   *)
(* at a store access (a query or a commit), which the store executes       *)
(* atomically; the computation between two store accesses touches only the *)
(* handler's locals and belongs to the step of the access that follows it. *)
(* Spec interleaves the steps of the handlers (several workers serving the *)
(* application against one database); SeqSpec runs one request at a time   *)
(* (a single event loop: the handlers are coroutines that never await).    *)
(***************************************************************************)
EXTENDS Integers, Sequences, FiniteSets, TLC

(***************************************************************************)
(* Character classes and string helpers (Python str operations).           *)
(***************************************************************************)
ascii_lowercase ==
    << "a","b","c","d","e","f","g","h","i","j","k","l","m",
       "n","o","p","q","r","s","t","u","v","w","x","y","z" >>

ascii_uppercase ==
    << "A","B","C","D","E","F","G","H","I","J","K","L","M",
       "N","O","P","Q","R","S","T","U","V","W","X","Y","Z" >>

digits ==
    << "0","1","2","3","4","5","6","7","8","9" >>

\* utils.py line 9: string.ascii_letters + string.digits
BASE62_CHARS ==
    ascii_lowercase \o ascii_uppercase \o digits

Range(s) ==
    { s[i] : i \in DOMAIN s }

IsLetter(c) ==
    c \in Range(ascii_lowercase) \cup Range(ascii_uppercase)

IsDigit(c) ==
    c \in Range(digits)

IsSpace(c) ==
    c = " "

\* str.lower() on one character
LowerChar(c) ==
    IF c \in Range(ascii_uppercase)
    THEN ascii_lowercase[CHOOSE i \in DOMAIN ascii_uppercase : ascii_uppercase[i] = c]
    ELSE c

\* str.lower()
Lower(s) ==
    [i \in DOMAIN s |-> LowerChar(s[i])]

\* s.startswith(prefix)
StartsWith(s, prefix) ==
    /\ Len(s) >= Len(prefix)
    /\ SubSeq(s, 1, Len(prefix)) = prefix

\* s.endswith(suffix)
EndsWith(s, suffix) ==
    /\ Len(s) >= Len(suffix)
    /\ SubSeq(s, Len(s) - Len(suffix) + 1, Len(s)) = suffix

\* s.find(c, start) with 1-based positions; 0 when c does not occur
Find(s, c, start) ==
    LET hits == { i \in start..Len(s) : s[i] = c }
    IN  IF hits = {} THEN 0 ELSE CHOOSE i \in hits : \A j \in hits : i <= j

\* s.rfind(c) with 1-based positions; 0 when c does not occur
RFind(s, c) ==
    LET hits == { i \in 1..Len(s) : s[i] = c }
    IN  IF hits = {} THEN 0 ELSE CHOOSE i \in hits : \A j \in hits : i >= j

\* s.strip(): surrounding whitespace removed
Strip(s) ==
    LET keep == { i \in 1..Len(s) : ~IsSpace(s[i]) }
    IN  IF keep = {} THEN << >>
        ELSE SubSeq(s, CHOOSE i \in keep : \A j \in keep : i <= j,
                       CHOOSE i \in keep : \A j \in keep : i >= j)

HTTP_PREFIX ==
    << "h","t","t","p",":","/","/" >>

HTTPS_PREFIX ==
    << "h","t","t","p","s",":","/","/" >>

(***************************************************************************)
(* urllib.parse.urlparse / urlunparse, as normalize_url calls them.        *)
(***************************************************************************)
\* urllib.parse.scheme_chars: letters, digits and "+-."
IsSchemeChar(c) ==
    IsLetter(c) \/ IsDigit(c) \/ c \in {"+", "-", "."}

\* urlsplit's scheme step: [scheme, rest]
SplitScheme(url) ==
    LET i == Find(url, ":", 1)
    IN  IF /\ i > 1
           /\ IsLetter(url[1])
           /\ \A k \in 1..(i - 1) : IsSchemeChar(url[k])
        THEN [scheme |-> Lower(SubSeq(url, 1, i - 1)),
              rest   |-> SubSeq(url, i + 1, Len(url))]
        ELSE [scheme |-> << >>, rest |-> url]

\* _splitnetloc(url, 2): the authority runs to the first of "/", "?", "#"
SplitNetloc(url) ==
    LET stops == { i \in 3..Len(url) : url[i] \in {"/", "?", "#"} }
        delim == IF stops = {} THEN Len(url) + 1
                 ELSE CHOOSE i \in stops : \A j \in stops : i <= j
    IN  [netloc |-> SubSeq(url, 3, delim - 1),
         rest   |-> SubSeq(url, delim, Len(url))]

\* url.split(c, 1) when c occurs in url: [head, tail]
SplitAt(url, c) ==
    LET i == Find(url, c, 1)
    IN  IF i = 0 THEN [head |-> url, tail |-> << >>]
        ELSE [head |-> SubSeq(url, 1, i - 1), tail |-> SubSeq(url, i + 1, Len(url))]

\* urllib.parse._splitparams: [path, params]
SplitParams(url) ==
    LET i == IF Find(url, "/", 1) > 0
             THEN Find(url, ";", RFind(url, "/"))
             ELSE Find(url, ";", 1)
    IN  IF i = 0 THEN [head |-> url, tail |-> << >>]
        ELSE [head |-> SubSeq(url, 1, i - 1), tail |-> SubSeq(url, i + 1, Len(url))]

\* urllib.parse.urlparse(url)
urlparse(url) ==
    LET s1 == SplitScheme(url)
        s2 == IF StartsWith(s1.rest, << "/", "/" >>)
              THEN SplitNetloc(s1.rest)
              ELSE [netloc |-> << >>, rest |-> s1.rest]
        s3 == SplitAt(s2.rest, "#")
        s4 == SplitAt(s3.head, "?")
        s5 == IF s1.scheme \in {<< "h","t","t","p" >>, << "h","t","t","p","s" >>}
                 /\ Find(s4.head, ";", 1) > 0
              THEN SplitParams(s4.head)
              ELSE [head |-> s4.head, tail |-> << >>]
    IN  [scheme   |-> s1.scheme,
         netloc   |-> s2.netloc,
         path     |-> s5.head,
         params   |-> s5.tail,
         query    |-> s4.tail,
         fragment |-> s3.tail]

\* urllib.parse.urlunparse((scheme, netloc, path, params, query, fragment))
urlunparse(scheme, netloc, path, params, query, fragment) ==
    LET u1 == IF params # << >> THEN path \o << ";" >> \o params ELSE path
        u2 == IF \/ netloc # << >>
                 \/ (scheme # << >> /\ ~StartsWith(u1, << "/", "/" >>))
              THEN << "/", "/" >> \o netloc \o
                   (IF u1 # << >> /\ u1[1] # "/" THEN << "/" >> \o u1 ELSE u1)
              ELSE u1
        u3 == IF scheme # << >> THEN scheme \o << ":" >> \o u2 ELSE u2
        u4 == IF query # << >> THEN u3 \o << "?" >> \o query ELSE u3
    IN  IF fragment # << >> THEN u4 \o << "#" >> \o fragment ELSE u4

(***************************************************************************)
(* app/utils.py: normalize_url                                             *)
(***************************************************************************)
\* variant: the scheme is prepended without the test
AddScheme_Always(url) ==
    HTTPS_PREFIX \o url

\* utils.py lines 58-59: the scheme test is an exact, case-sensitive prefix test
AddScheme(url) ==
    IF StartsWith(url, HTTP_PREFIX) \/ StartsWith(url, HTTPS_PREFIX)
    THEN url
    ELSE HTTPS_PREFIX \o url

\* utils.py lines 69-72: remove default ports
StripDefaultPort(scheme, netloc) ==
    IF EndsWith(netloc, << ":","8","0" >>) /\ scheme = << "h","t","t","p" >>
    THEN SubSeq(netloc, 1, Len(netloc) - 3)
    ELSE IF EndsWith(netloc, << ":","4","4","3" >>) /\ scheme = << "h","t","t","p","s" >>
         THEN SubSeq(netloc, 1, Len(netloc) - 4)
         ELSE netloc

normalize_url(url) ==
    LET parsed == urlparse(AddScheme(url))
        scheme == Lower(parsed.scheme)
        netloc == StripDefaultPort(scheme, Lower(parsed.netloc))
        path   == IF parsed.path = << "/" >> THEN << >> ELSE parsed.path
    IN  urlunparse(scheme, netloc, path, parsed.params, parsed.query, << >>)

(***************************************************************************)
(* app/utils.py: is_valid_url.  The pattern is matched as a set of         *)
(* positions: a position p means "the next character to read is s[p]".     *)
(***************************************************************************)
IsAlnum(c) ==
    IsLetter(c) \/ IsDigit(c)

\* ^https?://   (re.IGNORECASE)
AfterScheme(s) ==
    LET l == Lower(s)
    IN  (IF StartsWith(l, HTTP_PREFIX) THEN {Len(HTTP_PREFIX) + 1} ELSE {})
        \cup (IF StartsWith(l, HTTPS_PREFIX) THEN {Len(HTTPS_PREFIX) + 1} ELSE {})

\* [A-Z0-9](?:[A-Z0-9-]{0,61}[A-Z0-9])?\.  read from position i
AfterLabelDot(s, i) ==
    { j + 1 : j \in { j \in (i + 1)..Len(s) :
                        /\ s[j] = "."
                        /\ j - i <= 63
                        /\ IsAlnum(s[i])
                        /\ IsAlnum(s[j - 1])
                        /\ \A k \in (i + 1)..(j - 2) : IsAlnum(s[k]) \/ s[k] = "-" } }

RECURSIVE LabelClosure(_, _, _)
\* (?:label\.)+  : every position reachable by one or more labels
LabelClosure(s, frontier, seen) ==
    LET next == UNION { AfterLabelDot(s, i) : i \in frontier } \ seen
    IN  IF next = {} THEN seen ELSE LabelClosure(s, next, seen \cup next)

\* [A-Z]{2,6}\.?  read from position i
AfterTld(s, i) ==
    LET ends == { i + k : k \in { k \in 2..6 :
                                    /\ i + k - 1 <= Len(s)
                                    /\ \A m \in i..(i + k - 1) : IsLetter(s[m]) } }
    IN  ends \cup { j + 1 : j \in { j \in ends : j <= Len(s) /\ s[j] = "." } }

\* localhost  read from position i
AfterLocalhost(s, i) ==
    LET word == << "l","o","c","a","l","h","o","s","t" >>
    IN  IF /\ i + Len(word) - 1 <= Len(s)
           /\ Lower(SubSeq(s, i, i + Len(word) - 1)) = word
        THEN {i + Len(word)}
        ELSE {}

\* \d{1,3}  read from every position of P
AfterOctet(s, P) ==
    UNION { { i + k : k \in { k \in 1..3 :
                                /\ i + k - 1 <= Len(s)
                                /\ \A m \in i..(i + k - 1) : IsDigit(s[m]) } } : i \in P }

\* a literal "." read from every position of P
AfterDot(s, P) ==
    { i + 1 : i \in { i \in P : i <= Len(s) /\ s[i] = "." } }

\* \d{1,3}\.\d{1,3}\.\d{1,3}\.\d{1,3}  read from position i
AfterIPv4(s, i) ==
    AfterOctet(s, AfterDot(s, AfterOctet(s, AfterDot(s,
        AfterOctet(s, AfterDot(s, AfterOctet(s, {i})))))))

\* the host alternative: domain | localhost | IPv4
AfterHost(s, i) ==
    UNION { AfterTld(s, j) : j \in LabelClosure(s, {i}, {}) }
    \cup AfterLocalhost(s, i)
    \cup AfterIPv4(s, i)

\* (?::\d+)?  read from position i
AfterPort(s, i) ==
    {i} \cup { j \in (i + 2)..(Len(s) + 1) :
                 /\ s[i] = ":"
                 /\ \A m \in (i + 1)..(j - 1) : IsDigit(s[m]) }

\* (?:/?|[/?]\S+)$  read from position i
TailMatches(s, i) ==
    \/ i = Len(s) + 1
    \/ i = Len(s) /\ s[i] = "/"
    \/ /\ i < Len(s)
       /\ s[i] \in {"/", "?"}
       /\ \A m \in (i + 1)..Len(s) : ~IsSpace(s[m])

\* variant: only the scheme prefix is tested
is_valid_url_SchemeOnly(url) ==
    AfterScheme(url) # {}

is_valid_url(url) ==
    \E a \in AfterScheme(url) :
        \E h \in AfterHost(url, a) :
            \E p \in AfterPort(url, h) :
                TailMatches(url, p)

(***************************************************************************)
(* Bounds of the model and constants of the program.                       *)
(***************************************************************************)
\* concurrent request handlers (workers sharing the one database)
NumProcs == 2

\* requests served in one behaviour
MaxRequests == 3

\* distinct outcomes of the random source that generate_short_code draws from
NumCodes == 2

\* variant: one iteration too many
max_attempts_Eleven == 10 + 1

\* main.py line 114
max_attempts == 10

\* utils.py line 12: def generate_short_code(length: int = 6)
DefaultLength == 6

\* main.py line 158: .limit(50)
AnalyticsLimit == 50

Procs == 1..NumProcs

\* utils.py line 22: length characters of BASE62_CHARS; the random source is
\* restricted to NumCodes of its outcomes (the same character in every place)
generate_short_code(length) ==
    { [i \in 1..length |-> BASE62_CHARS[k]] : k \in 1..NumCodes }

\* form fields submitted to POST /shorten
RawExampleCom ==
    << "e","x","a","m","p","l","e",".","c","o","m" >>

RawUpperHttps ==
    << "H","T","T","P","S",":","/","/","E","X","A","M","P","L","E",".","c","o","m",":","4","4","3","/" >>

RawHttpsExampleCom ==
    << "h","t","t","p","s",":","/","/","e","x","a","m","p","l","e",".","c","o","m" >>

RawNotAUrl ==
    << "n","o","t"," ","a"," ","u","r","l" >>

RawFtp ==
    << "f","t","p",":","/","/","e","x","a","m","p","l","e",".","c","o","m" >>

RawPaddedHttp ==
    << " ","h","t","t","p",":","/","/","a",".","i","o",":","8","0","/"," " >>

\* the form field long_url of POST /shorten
RawInputs ==
    { RawExampleCom, RawUpperHttps, RawHttpsExampleCom, RawNotAUrl, RawFtp, RawPaddedHttp }

\* a path parameter no generated code equals
UnknownCode ==
    << "d","o","e","s","n","o","t","e","x","i","s","t" >>

\* the path parameter short_code of GET /{short_code}
CodeInputs ==
    generate_short_code(DefaultLength) \cup { UnknownCode }

None == << >>

NoResponse ==
    [kind |-> "none", short_code |-> None, location |-> None, urls |-> << >>]

VARIABLES
    urls,            \* the table "urls" (models.py): rows in insertion order
    pc,              \* where each handler stands
    long_url,        \* shorten_url: the submitted form field
    normalized_url,  \* shorten_url: main.py line 86
    short_code,      \* shorten_url: the candidate; redirect_to_url: the path parameter
    attempts,        \* shorten_url: iterations of the loop at main.py line 115 begun
    url_record,      \* redirect_to_url: the row as the session loaded it (line 184)
    response,        \* what the handler returned
    nreq,            \* requests received so far
    issued,          \* history: (normalized URL, short code) pairs returned by shorten_url
    redirects        \* history: 302 responses sent per short code

vars ==
    << urls, pc, long_url, normalized_url, short_code, attempts, url_record,
       response, nreq, issued, redirects >>

NoRecord ==
    [row |-> 0, click_count |-> 0, long_url |-> None]

(***************************************************************************)
(* The store: the table of app/models.py and the queries of app/main.py.   *)
(***************************************************************************)
\* variant: the filter never matches
QueryByLongUrl_Never(u) ==
    {}

\* db.query(URL).filter(URL.long_url == u): the matching rows
QueryByLongUrl(u) ==
    { i \in DOMAIN urls : urls[i].long_url = u }

\* variant: the filter is dropped
QueryByShortCode_Any(c) ==
    DOMAIN urls

\* db.query(URL).filter(URL.short_code == c): the matching rows
QueryByShortCode(c) ==
    { i \in DOMAIN urls : urls[i].short_code = c }

\* variant: the column is declared without unique=True
UniqueViolation_Off(c) ==
    FALSE

\* models.py line 14: unique=True on short_code; the INSERT is refused
\* (IntegrityError) when a row with the same short_code exists
UniqueViolation(c) ==
    \E i \in DOMAIN urls : urls[i].short_code = c

\* variant: the column default is 1
NewRow_OneClick(u, c) ==
    [id |-> Len(urls) + 1, long_url |-> u, short_code |-> c, click_count |-> 1]

\* models.py lines 12-16: the row INSERTed for URL(long_url=u, short_code=c)
NewRow(u, c) ==
    [id |-> Len(urls) + 1, long_url |-> u, short_code |-> c, click_count |-> 0]

\* main.py line 199: url_record.click_count += 1 on the loaded object
IncrementedCount(rec) ==
    rec.click_count + 1

\* variant: order_by(click_count) without .desc()
IsTopOrder_Ascending(seq) ==
    /\ Len(seq) = (IF Len(urls) < AnalyticsLimit THEN Len(urls) ELSE AnalyticsLimit)
    /\ \A i, j \in DOMAIN seq : i < j => seq[i] # seq[j]
    /\ \A i, j \in DOMAIN seq : i < j => urls[seq[i]].click_count <= urls[seq[j]].click_count
    /\ \A i \in DOMAIN seq : \A k \in DOMAIN urls :
          (\A j \in DOMAIN seq : seq[j] # k) => urls[seq[i]].click_count <= urls[k].click_count

\* main.py line 158: order_by(click_count.desc()).limit(50); rows with equal
\* click_count come in an order the database chooses
IsTopOrder(seq) ==
    /\ Len(seq) = (IF Len(urls) < AnalyticsLimit THEN Len(urls) ELSE AnalyticsLimit)
    /\ \A i, j \in DOMAIN seq : i < j => seq[i] # seq[j]
    /\ \A i, j \in DOMAIN seq : i < j => urls[seq[i]].click_count >= urls[seq[j]].click_count
    /\ \A i \in DOMAIN seq : \A k \in DOMAIN urls :
          (\A j \in DOMAIN seq : seq[j] # k) => urls[seq[i]].click_count >= urls[k].click_count

Respond(p, r) ==
    /\ pc' = [pc EXCEPT ![p] = "done"]
    /\ response' = [response EXCEPT ![p] = r]

(***************************************************************************)
(* POST /shorten  (main.py lines 71-146)                                   *)
(***************************************************************************)
\* lines 86-111: normalize, validate, look for an existing row
ShortenRequest(p, input) ==
    /\ pc[p] = "idle"
    /\ nreq < MaxRequests
    /\ nreq' = nreq + 1
    /\ long_url' = [long_url EXCEPT ![p] = input]
    /\ LET n == normalize_url(Strip(input))
       IN  /\ normalized_url' = [normalized_url EXCEPT ![p] = n]
           /\ IF ~is_valid_url(n)
              THEN /\ Respond(p, [NoResponse EXCEPT !.kind = "InvalidUrl"])
                   /\ UNCHANGED issued
              ELSE IF QueryByLongUrl(n) = {}
                   THEN /\ pc' = [pc EXCEPT ![p] = "shorten_generate"]
                        /\ UNCHANGED << response, issued >>
                   ELSE \E i \in QueryByLongUrl(n) :
                          /\ Respond(p, [NoResponse EXCEPT !.kind = "ShortUrl",
                                                           !.short_code = urls[i].short_code])
                          /\ issued' = issued \cup { << n, urls[i].short_code >> }
    /\ UNCHANGED << urls, short_code, attempts, url_record, redirects >>

\* lines 115-128: one iteration of the loop, and the else branch after the last
ShortenGenerate(p) ==
    /\ pc[p] = "shorten_generate"
    /\ attempts[p] < max_attempts
    /\ \E c \in generate_short_code(DefaultLength) :
          /\ short_code' = [short_code EXCEPT ![p] = c]
          /\ attempts' = [attempts EXCEPT ![p] = attempts[p] + 1]
          /\ IF QueryByShortCode(c) = {}
             THEN /\ pc' = [pc EXCEPT ![p] = "shorten_insert"]
                  /\ UNCHANGED response
             ELSE IF attempts[p] + 1 = max_attempts
                  THEN Respond(p, [NoResponse EXCEPT !.kind = "CodeSpaceExhausted"])
                  ELSE UNCHANGED << pc, response >>
    /\ UNCHANGED << urls, long_url, normalized_url, url_record, nreq, issued, redirects >>

\* variant: a row with the same short_code is overwritten (INSERT OR REPLACE)
ShortenInsert_Upsert(p) ==
    /\ pc[p] = "shorten_insert"
    /\ IF UniqueViolation(short_code[p])
       THEN urls' = [i \in DOMAIN urls |->
                        IF urls[i].short_code = short_code[p]
                        THEN [urls[i] EXCEPT !.long_url = normalized_url[p], !.click_count = 0]
                        ELSE urls[i]]
       ELSE urls' = Append(urls, NewRow(normalized_url[p], short_code[p]))
    /\ Respond(p, [NoResponse EXCEPT !.kind = "ShortUrl",
                                     !.short_code = short_code[p]])
    /\ issued' = issued \cup { << normalized_url[p], short_code[p] >> }
    /\ UNCHANGED << long_url, normalized_url, short_code, attempts, url_record,
                    nreq, redirects >>

\* lines 131-146: INSERT and commit; an IntegrityError is not caught
ShortenInsert(p) ==
    /\ pc[p] = "shorten_insert"
    /\ IF UniqueViolation(short_code[p])
       THEN /\ Respond(p, [NoResponse EXCEPT !.kind = "ServerError"])
            /\ UNCHANGED << urls, issued >>
       ELSE /\ urls' = Append(urls, NewRow(normalized_url[p], short_code[p]))
            /\ Respond(p, [NoResponse EXCEPT !.kind = "ShortUrl",
                                             !.short_code = short_code[p]])
            /\ issued' = issued \cup { << normalized_url[p], short_code[p] >> }
    /\ UNCHANGED << long_url, normalized_url, short_code, attempts, url_record,
                    nreq, redirects >>

(***************************************************************************)
(* GET /{short_code}  (main.py lines 169-203)                              *)
(***************************************************************************)
\* lines 184-196: load the row, or answer 404
RedirectRequest(p, code) ==
    /\ pc[p] = "idle"
    /\ nreq < MaxRequests
    /\ nreq' = nreq + 1
    /\ short_code' = [short_code EXCEPT ![p] = code]
    /\ IF QueryByShortCode(code) = {}
       THEN /\ Respond(p, [NoResponse EXCEPT !.kind = "NotFound"])
            /\ UNCHANGED url_record
       ELSE \E i \in QueryByShortCode(code) :
              /\ url_record' = [url_record EXCEPT ![p] =
                                   [row |-> i,
                                    click_count |-> urls[i].click_count,
                                    long_url |-> urls[i].long_url]]
              /\ pc' = [pc EXCEPT ![p] = "redirect_commit"]
              /\ UNCHANGED response
    /\ UNCHANGED << urls, long_url, normalized_url, attempts, issued, redirects >>

\* variant: the UPDATE has no WHERE clause
RedirectCommit_AllRows(p) ==
    /\ pc[p] = "redirect_commit"
    /\ urls' = [i \in DOMAIN urls |->
                   [urls[i] EXCEPT !.click_count = IncrementedCount(url_record[p])]]
    /\ Respond(p, [NoResponse EXCEPT !.kind = "Redirect",
                                     !.location = url_record[p].long_url])
    /\ redirects' = [redirects EXCEPT ![short_code[p]] = @ + 1]
    /\ UNCHANGED << long_url, normalized_url, short_code, attempts, url_record,
                    nreq, issued >>

\* lines 199-203: write the incremented count of the loaded object, answer 302
RedirectCommit(p) ==
    /\ pc[p] = "redirect_commit"
    /\ urls' = [urls EXCEPT ![url_record[p].row].click_count = IncrementedCount(url_record[p])]
    /\ Respond(p, [NoResponse EXCEPT !.kind = "Redirect",
                                     !.location = url_record[p].long_url])
    /\ redirects' = [redirects EXCEPT ![short_code[p]] = @ + 1]
    /\ UNCHANGED << long_url, normalized_url, short_code, attempts, url_record,
                    nreq, issued >>

(***************************************************************************)
(* GET /analytics  (main.py lines 149-166)                                 *)
(***************************************************************************)
Analytics(p) ==
    /\ pc[p] = "idle"
    /\ nreq < MaxRequests
    /\ nreq' = nreq + 1
    /\ \E n \in 0..Len(urls) :
         \E seq \in [1..n -> DOMAIN urls] :
            /\ IsTopOrder(seq)
            /\ Respond(p, [NoResponse EXCEPT !.kind = "Analytics",
                                             !.urls = [i \in 1..n |-> urls[seq[i]]]])
    /\ UNCHANGED << urls, long_url, normalized_url, short_code, attempts, url_record,
                    issued, redirects >>

\* the response is sent and the handler's locals are gone
Finish(p) ==
    /\ pc[p] = "done"
    /\ pc' = [pc EXCEPT ![p] = "idle"]
    /\ long_url' = [long_url EXCEPT ![p] = None]
    /\ normalized_url' = [normalized_url EXCEPT ![p] = None]
    /\ short_code' = [short_code EXCEPT ![p] = None]
    /\ attempts' = [attempts EXCEPT ![p] = 0]
    /\ url_record' = [url_record EXCEPT ![p] = NoRecord]
    /\ response' = [response EXCEPT ![p] = NoResponse]
    /\ UNCHANGED << urls, nreq, issued, redirects >>

Init ==
    /\ urls = << >>
    /\ pc = [p \in Procs |-> "idle"]
    /\ long_url = [p \in Procs |-> None]
    /\ normalized_url = [p \in Procs |-> None]
    /\ short_code = [p \in Procs |-> None]
    /\ attempts = [p \in Procs |-> 0]
    /\ url_record = [p \in Procs |-> NoRecord]
    /\ response = [p \in Procs |-> NoResponse]
    /\ nreq = 0
    /\ issued = {}
    /\ redirects = [c \in CodeInputs |-> 0]

Step(p) ==
    \/ \E input \in RawInputs : ShortenRequest(p, input)
    \/ ShortenGenerate(p)
    \/ ShortenInsert(p)
    \/ \E code \in CodeInputs : RedirectRequest(p, code)
    \/ RedirectCommit(p)
    \/ Analytics(p)
    \/ Finish(p)

Next ==
    \E p \in Procs : Step(p)

Spec == Init /\ [][Next]_vars

\* one request at a time: a handler runs only while every other one is at rest
Quiet(p) ==
    \A q \in Procs \ {p} : pc[q] \in {"idle", "done"}

SeqNext ==
    \E p \in Procs : Quiet(p) /\ Step(p)

SeqSpec == Init /\ [][SeqNext]_vars

(***************************************************************************)
(* normalize_url applied on its own (utils.py lines 47-89): the argument   *)
(* is drawn from URLs put together from the parts below.                   *)
(***************************************************************************)
SchemeParts ==
    { << >>,
      << "h","t","t","p",":","/","/" >>,
      << "h","t","t","p","s",":","/","/" >>,
      << "H","T","T","P",":","/","/" >>,
      << "H","t","t","p","s",":","/","/" >> }

HostParts ==
    { << "e","x","a","m","p","l","e",".","c","o","m" >>,
      << "E","X","A","M","P","L","E",".","c","o","m" >>,
      << "l","o","c","a","l","h","o","s","t" >>,
      << "1",".","2",".","3",".","4" >>,
      << "x" >> }

PortParts ==
    { << >>,
      << ":","8","0" >>,
      << ":","4","4","3" >>,
      << ":","8","0","8","0" >>,
      << ":","8","0",":","8","0" >> }

PathParts ==
    { << >>,
      << "/" >>,
      << "/","a",";","p" >>,
      << "/","A","/" >>,
      << "/","/" >>,
      << "/",";","x" >> }

QueryParts ==
    { << >>,
      << "?" >>,
      << "?","Q","=","1" >> }

FragmentParts ==
    { << >>,
      << "#" >>,
      << "#","F" >> }

UrlInputs ==
    { s \o h \o t \o a \o q \o f :
        s \in SchemeParts, h \in HostParts, t \in PortParts,
        a \in PathParts, q \in QueryParts, f \in FragmentParts }

NormInit ==
    /\ urls = << >>
    /\ pc = [p \in Procs |-> "idle"]
    /\ \E p \in Procs : \E u \in UrlInputs :
          long_url = [q \in Procs |-> IF q = p THEN u ELSE None]
    /\ normalized_url = [p \in Procs |-> None]
    /\ short_code = [p \in Procs |-> None]
    /\ attempts = [p \in Procs |-> 0]
    /\ url_record = [p \in Procs |-> NoRecord]
    /\ response = [p \in Procs |-> NoResponse]
    /\ nreq = 0
    /\ issued = {}
    /\ redirects = [c \in CodeInputs |-> 0]

\* normalized = normalize_url(url)
NormalizeCall(p) ==
    /\ pc[p] = "idle"
    /\ long_url[p] # None
    /\ normalized_url' = [normalized_url EXCEPT ![p] = normalize_url(long_url[p])]
    /\ pc' = [pc EXCEPT ![p] = "done"]
    /\ UNCHANGED << urls, long_url, short_code, attempts, url_record, response,
                    nreq, issued, redirects >>

NormNext ==
    \E p \in Procs : NormalizeCall(p)

NormSpec == NormInit /\ [][NormNext]_vars

(***************************************************************************)
(* GET /analytics against a table that earlier requests have filled: the   *)
(* table starts with up to MaxRows rows and click counts from ClickCounts. *)
(***************************************************************************)
\* rows in the table when the analytics requests arrive
MaxRows == 3

ClickCounts ==
    {0, 1, 5, 10}

\* the i-th row: a normalized URL, a code of DefaultLength characters, n clicks
StoredRow(i, n) ==
    [id |-> i,
     long_url |-> HTTPS_PREFIX \o RawExampleCom \o << "/", BASE62_CHARS[i] >>,
     short_code |-> [j \in 1..DefaultLength |-> BASE62_CHARS[i]],
     click_count |-> n]

TopInit ==
    /\ \E n \in 0..MaxRows : \E counts \in [1..n -> ClickCounts] :
          urls = [i \in 1..n |-> StoredRow(i, counts[i])]
    /\ pc = [p \in Procs |-> "idle"]
    /\ long_url = [p \in Procs |-> None]
    /\ normalized_url = [p \in Procs |-> None]
    /\ short_code = [p \in Procs |-> None]
    /\ attempts = [p \in Procs |-> 0]
    /\ url_record = [p \in Procs |-> NoRecord]
    /\ response = [p \in Procs |-> NoResponse]
    /\ nreq = 0
    /\ issued = {}
    /\ redirects = [c \in CodeInputs |-> 0]

TopNext ==
    \E p \in Procs :
        \/ Analytics(p)
        \/ Finish(p)

TopSpec == TopInit /\ [][TopNext]_vars

(***************************************************************************)
(* Properties.                                                             *)
(***************************************************************************)
HasCode(c) ==
    \E i \in DOMAIN urls : urls[i].short_code = c

\* C1: resolving an existing short code K times raises its click_count by
\* exactly K, also when the resolves overlap: every stored click_count equals
\* the number of 302 responses sent for its code.
C1_ClickCountEqualsResolves ==
    \A i \in DOMAIN urls : urls[i].click_count = redirects[urls[i].short_code]

\* C2: under any interleaving of shorten calls there is at most one row per
\* normalized URL, and inputs with the same normalized form get the same code.
C2_OneMappingPerUrl ==
    /\ \A i, j \in DOMAIN urls : urls[i].long_url = urls[j].long_url => i = j
    /\ \A a, b \in issued : a[1] = b[1] => a[2] = b[2]

\* C3: no two stored rows have the same short_code, and an insert of a code
\* that is already present leaves the table as it was.
C3_UniqueShortCodes ==
    /\ [](\A i, j \in DOMAIN urls : urls[i].short_code = urls[j].short_code => i = j)
    /\ [][\A p \in Procs :
            (pc[p] = "shorten_insert" /\ pc'[p] = "done" /\ HasCode(short_code[p]))
                => urls' = urls]_vars

\* C3 witness: an insert of a code another request stored first was refused.
C3_Witness ==
    \E p \in Procs :
        /\ response[p].kind = "ServerError"
        /\ HasCode(short_code[p])

\* C4: a uniqueness violation on insert is retried inside shorten and never
\* reaches the caller as an error.
C4_CollisionNotSurfaced ==
    \A p \in Procs : response[p].kind # "ServerError"

\* C5: two shorten calls, one after the other, with inputs of the same
\* normalized form return the same code and leave one row for that URL; the
\* call that finds the URL stored creates no row.
C5_SequentialDedup ==
    /\ [](\A a, b \in issued : a[1] = b[1] => a[2] = b[2])
    /\ [](\A i, j \in DOMAIN urls : urls[i].long_url = urls[j].long_url => i = j)
    /\ [][\A p \in Procs : \A i \in DOMAIN urls :
            (pc[p] = "idle" /\ long_url'[p] # None /\ normalized_url'[p] = urls[i].long_url)
                => /\ urls' = urls
                   /\ response'[p].kind = "ShortUrl"
                   /\ response'[p].short_code = urls[i].short_code]_vars

\* C5 witness: two finished calls with different raw inputs, the same code
\* and a single row.
C5_Witness ==
    \E p, q \in Procs :
        /\ long_url[p] = RawExampleCom
        /\ long_url[q] = RawHttpsExampleCom
        /\ response[p].kind = "ShortUrl"
        /\ response[q].kind = "ShortUrl"
        /\ response[p].short_code = response[q].short_code
        /\ Len(urls) = 1

\* C6: the codes returned for pairwise distinct normalized URLs are pairwise
\* distinct.
C6_DistinctUrlsDistinctCodes ==
    \A a, b \in issued : a[1] # b[1] => a[2] # b[2]

\* C6 witness: codes were returned for two distinct normalized URLs.
C6_Witness ==
    \E a, b \in issued : a[1] # b[1]

\* C7: resolve of a code no row has answers NotFound and leaves the table
\* unchanged.
C7_UnknownCodeNotFound ==
    [][\A p \in Procs : \A code \in CodeInputs :
         (pc[p] = "idle" /\ short_code'[p] = code /\ ~HasCode(code))
            => /\ pc'[p] = "done"
               /\ response'[p].kind = "NotFound"
               /\ urls' = urls]_vars

\* C7 witness: an unknown code was answered NotFound while rows exist.
C7_Witness ==
    \E p \in Procs :
        /\ short_code[p] = UnknownCode
        /\ response[p].kind = "NotFound"
        /\ Len(urls) > 0

\* C8: when all 10 candidates of one shorten call exist in the table the call
\* answers CodeSpaceExhausted, the table is unchanged, and no 11th candidate
\* is generated.
C8_ExhaustionBoundary ==
    /\ [](\A p \in Procs : attempts[p] <= 10)
    /\ [](\A p \in Procs : response[p].kind = "CodeSpaceExhausted" => attempts[p] = 10)
    /\ [][\A p \in Procs :
            (pc[p] = "shorten_generate" /\ attempts[p] = 9 /\ attempts'[p] = 10
                /\ HasCode(short_code'[p]))
                => /\ response'[p].kind = "CodeSpaceExhausted"
                   /\ pc'[p] = "done"
                   /\ urls' = urls]_vars

\* C8 witness: a call ended CodeSpaceExhausted after 10 candidates.
C8_Witness ==
    \E p \in Procs :
        /\ response[p].kind = "CodeSpaceExhausted"
        /\ attempts[p] = 10

\* C9: shorten of "not a url" and of "ftp://example.com" answers InvalidUrl,
\* generates no code and leaves the table unchanged, as does every input
\* whose trimmed, normalized form fails validation.
C9_InvalidRejected ==
    /\ [](\A p \in Procs :
            (long_url[p] \in {RawNotAUrl, RawFtp}
                \/ (long_url[p] # None /\ ~is_valid_url(normalized_url[p])))
                => /\ pc[p] = "done"
                   /\ response[p].kind = "InvalidUrl"
                   /\ attempts[p] = 0
                   /\ short_code[p] = None)
    /\ [][\A p \in Procs :
            (response[p].kind # "InvalidUrl" /\ response'[p].kind = "InvalidUrl")
                => urls' = urls]_vars

\* C9 witness: both inputs were rejected while a row exists.
C9_Witness ==
    \E p, q \in Procs :
        /\ long_url[p] = RawNotAUrl
        /\ long_url[q] = RawFtp
        /\ response[p].kind = "InvalidUrl"
        /\ response[q].kind = "InvalidUrl"
        /\ Len(urls) > 0

\* C10: "example.com", "HTTPS://EXAMPLE.com:443/" and "https://example.com"
\* have the same normalized form, so shortening any of them gives the same
\* mapping.
C10_NormalizationEquivalence ==
    \A p, q \in Procs :
        (long_url[p] \in {RawExampleCom, RawUpperHttps, RawHttpsExampleCom}
            /\ long_url[q] \in {RawExampleCom, RawUpperHttps, RawHttpsExampleCom})
            => /\ normalized_url[p] = normalized_url[q]
               /\ response[p].kind # "InvalidUrl"

\* C11: normalize_url is idempotent on valid URLs: for every u that
\* is_valid_url accepts, normalize_url(normalize_url(u)) = normalize_url(u).
C11_NormalizeIdempotent ==
    \A p \in Procs :
        (pc[p] = "done" /\ is_valid_url(long_url[p]))
            => normalize_url(normalized_url[p]) = normalized_url[p]

\* C11 witness: a valid URL with an upper-case host, a default port, a path
\* of "/" and a fragment was normalized to something else.
C11_Witness ==
    \E p \in Procs :
        /\ pc[p] = "done"
        /\ is_valid_url(long_url[p])
        /\ long_url[p] = << "h","t","t","p",":","/","/","E","X","A","M","P","L","E",".","c","o","m",":","8","0","/","#","F" >>
        /\ normalized_url[p] = << "h","t","t","p",":","/","/","e","x","a","m","p","l","e",".","c","o","m" >>

ClickCountsAre(counts) ==
    /\ Len(urls) = Len(counts)
    /\ \A i \in DOMAIN urls : urls[i].click_count = counts[i]

C16_RepeatableOrder ==
    \A p, q \in Procs :
        (response[p].kind = "Analytics" /\ response[q].kind = "Analytics")
            => response[p].urls = response[q].urls

\* C13: a click_count never decreases, changes only in a successful resolve
\* of its row's code, and every successful resolve raises it by exactly 1.
C13_ClickCountSteps ==
    [][/\ \A i \in DOMAIN urls :
            /\ urls'[i].click_count >= urls[i].click_count
            /\ urls'[i].click_count # urls[i].click_count
                  => /\ urls'[i].click_count = urls[i].click_count + 1
                     /\ \E p \in Procs : /\ pc[p] = "redirect_commit"
                                         /\ pc'[p] = "done"
                                         /\ short_code[p] = urls[i].short_code
       /\ \A p \in Procs :
            (pc[p] = "redirect_commit" /\ pc'[p] = "done")
                => urls'[url_record[p].row].click_count
                      = urls[url_record[p].row].click_count + 1]_vars

\* C14: a mapping, once stored, stays stored with the same id, long_url and
\* short_code.
C14_MappingsImmutable ==
    [][\A i \in DOMAIN urls :
          /\ i \in DOMAIN urls'
          /\ urls'[i].id = urls[i].id
          /\ urls'[i].long_url = urls[i].long_url
          /\ urls'[i].short_code = urls[i].short_code]_vars

\* C14 witness: a row is still there after a later shorten stored a second
\* row and a resolve counted a click.
C14_Witness ==
    /\ Len(urls) = 2
    /\ \E i \in DOMAIN urls : urls[i].click_count > 0

\* C15: a shorten call adds at most one row and only after finding a free
\* code; when the normalized URL is already stored it adds no row and
\* generates no candidate; a new row has click_count 0.
C15_ShortenFrame ==
    [][/\ Len(urls') <= Len(urls) + 1
       /\ Len(urls') = Len(urls) + 1
            => /\ urls'[Len(urls')].click_count = 0
               /\ \E p \in Procs :
                     /\ pc[p] = "shorten_insert"
                     /\ pc'[p] = "done"
                     /\ ~HasCode(short_code[p])
                     /\ urls'[Len(urls')].long_url = normalized_url[p]
                     /\ urls'[Len(urls')].short_code = short_code[p]
       /\ \A p \in Procs :
            (pc[p] = "idle" /\ long_url'[p] # None
                /\ \E i \in DOMAIN urls : urls[i].long_url = normalized_url'[p])
                => /\ urls' = urls
                   /\ pc'[p] = "done"
                   /\ attempts'[p] = 0
                   /\ short_code'[p] = None]_vars

\* C15 witness: one call stored a row with no clicks and another call for the
\* same normalized URL ended without generating a code.
C15_Witness ==
    \E p \in Procs :
        /\ response[p].kind = "ShortUrl"
        /\ attempts[p] = 0
        /\ Len(urls) = 1
        /\ urls[1].click_count = 0

NormExampleCom ==
    << "h","t","t","p","s",":","/","/","e","x","a","m","p","l","e",".","c","o","m" >>

NormAIo ==
    << "h","t","t","p",":","/","/","a",".","i","o" >>

\* C17: every stored long_url is normalize_url of a trimmed input and passes
\* is_valid_url; with the inputs of the model it is https://example.com or
\* http://a.io.
C17_StoredUrlsNormalizedValid ==
    \A i \in DOMAIN urls :
        /\ is_valid_url(urls[i].long_url)
        /\ \E input \in RawInputs : urls[i].long_url = normalize_url(Strip(input))
        /\ urls[i].long_url \in {NormExampleCom, NormAIo}

\* C17 witness: the padded input with a default port and a "/" path is stored
\* in its normalized form.
C17_Witness ==
    \E i \in DOMAIN urls : \E p \in Procs :
        /\ long_url[p] = RawPaddedHttp
        /\ response[p].kind = "ShortUrl"
        /\ urls[i].short_code = response[p].short_code
        /\ urls[i].long_url = NormAIo

\* C18: after shorten(u) returned the code c, every resolve of c finds the
\* row and redirects to normalize_url(trim(u)).
C18_RoundTrip ==
    /\ [](\A q \in Procs : response[q].kind = "Redirect" =>
            /\ \A pair \in issued :
                  pair[2] = short_code[q] => response[q].location = pair[1]
            /\ \A p \in Procs :
                  (response[p].kind = "ShortUrl"
                      /\ response[p].short_code = short_code[q])
                      => response[q].location = normalize_url(Strip(long_url[p])))
    /\ [][\A q \in Procs : \A pair \in issued :
            (pc[q] = "idle" /\ short_code'[q] = pair[2])
                => /\ pc'[q] = "redirect_commit"
                   /\ url_record'[q].long_url = pair[1]]_vars

\* C18 witness: the code returned for " http://a.io:80/ " redirects to
\* http://a.io after another URL was shortened in between.
C18_Witness ==
    \E p, q \in Procs :
        /\ long_url[p] = RawPaddedHttp
        /\ response[p].kind = "ShortUrl"
        /\ response[q].kind = "Redirect"
        /\ short_code[q] = response[p].short_code
        /\ response[q].location = NormAIo

\* C19: a successful resolve of code c changes nothing but the click_count of
\* the row with short_code c.
C19_ResolveFrame ==
    [][\A p \in Procs :
          (pc[p] = "redirect_commit" /\ pc'[p] = "done")
              => /\ Len(urls') = Len(urls)
                 /\ \A i \in DOMAIN urls :
                       /\ urls'[i].id = urls[i].id
                       /\ urls'[i].long_url = urls[i].long_url
                       /\ urls'[i].short_code = urls[i].short_code
                       /\ urls[i].short_code # short_code[p]
                             => urls'[i].click_count = urls[i].click_count]_vars

\* C19 witness: a resolve counted a click on one of two rows.
C19_Witness ==
    /\ Len(urls) = 2
    /\ \E p \in Procs : response[p].kind = "Redirect"
    /\ \E i, j \in DOMAIN urls : urls[i].click_count = 1 /\ urls[j].click_count = 0

\* C20: every shorten call ends, after at most 10 candidates, with a short
\* code, InvalidUrl or CodeSpaceExhausted, and the code it inserts is the
\* first candidate the lookup reported absent.
C20_ThreeOutcomes ==
    \A p \in Procs :
        /\ attempts[p] <= 10
        /\ (pc[p] = "done" /\ long_url[p] # None)
              => response[p].kind \in {"ShortUrl", "InvalidUrl", "CodeSpaceExhausted"}
=============================================================================
